---------------------------- MODULE Spec2Model ----------------------------
(***************************************************************************)
(* Model of the constant operands of booleano/operations/operands/         *)
(* constants.py (String, Number, Arithmetic, ArithmeticVariable, Set) and  *)
(* of the stock Variables of stockVars.py that arithmetic expressions      *)
(* refer to.                                                               *)
(*                                                                         *)
(* Text is modelled as a sequence of one-character strings, so that        *)
(* str.replace, str.split and the formatting / parsing of numbers are      *)
(* computed character by character.                                        *)
(***************************************************************************)
EXTENDS Integers, Sequences, FiniteSets, TLC

(***************************************************************************)
(* Bounds of the model.                                                    *)
(***************************************************************************)
\* longest token sequence handed to ArithmeticVariable
MaxTokens == 3
\* largest number of member operands of a Set constant
MaxMembers == 3
\* most evaluate calls made on one ArithmeticVariable
MaxEvaluations == 2
\* largest number of elements of the collection handed to Set.is_subset
MaxValues == 2

---------------------------------------------------------------------------
(***************************************************************************)
(* Text helpers: Python str operations on character sequences.             *)
(***************************************************************************)
LowerLetters ==
  {"a","b","c","d","e","f","g","h","i","j","k","l","m",
   "n","o","p","q","r","s","t","u","v","w","x","y","z"}

UpperLetters ==
  {"A","B","C","D","E","F","G","H","I","J","K","L","M",
   "N","O","P","Q","R","S","T","U","V","W","X","Y","Z"}

DigitChars == {"0","1","2","3","4","5","6","7","8","9"}

DigitVal(c) ==
  CASE c = "0" -> 0 [] c = "1" -> 1 [] c = "2" -> 2 [] c = "3" -> 3
    [] c = "4" -> 4 [] c = "5" -> 5 [] c = "6" -> 6 [] c = "7" -> 7
    [] c = "8" -> 8 [] c = "9" -> 9

DigitChar(d) ==
  CASE d = 0 -> "0" [] d = 1 -> "1" [] d = 2 -> "2" [] d = 3 -> "3"
    [] d = 4 -> "4" [] d = 5 -> "5" [] d = 6 -> "6" [] d = 7 -> "7"
    [] d = 8 -> "8" [] d = 9 -> "9"

\* k in s  (substring test)
RECURSIVE StrContains(_, _)
StrContains(s, k) ==
  IF Len(s) < Len(k) THEN FALSE
  ELSE IF SubSeq(s, 1, Len(k)) = k THEN TRUE
  ELSE StrContains(Tail(s), k)

\* s.replace(k, r): every non-overlapping occurrence, left to right
RECURSIVE StrReplace(_, _, _)
StrReplace(s, k, r) ==
  IF Len(k) = 0 \/ Len(s) < Len(k) THEN s
  ELSE IF SubSeq(s, 1, Len(k)) = k
       THEN r \o StrReplace(SubSeq(s, Len(k) + 1, Len(s)), k, r)
       ELSE <<Head(s)>> \o StrReplace(Tail(s), k, r)

\* s.split(sep) for a one-character separator: the ordered pieces
RECURSIVE StrSplit(_, _, _)
StrSplit(s, sep, cur) ==
  IF s = <<>> THEN <<cur>>
  ELSE IF Head(s) = sep THEN <<cur>> \o StrSplit(Tail(s), sep, <<>>)
  ELSE StrSplit(Tail(s), sep, Append(cur, Head(s)))

\* "".join(tokens)
RECURSIVE StrJoin(_)
StrJoin(toks) ==
  IF toks = <<>> THEN <<>> ELSE Head(toks) \o StrJoin(Tail(toks))

\* str(n) for a non-negative integer
RECURSIVE NatToStr(_)
NatToStr(n) ==
  IF n < 10 THEN <<DigitChar(n)>>
  ELSE Append(NatToStr(n \div 10), DigitChar(n % 10))

\* str(n) for an integer
IntToStr(n) == IF n < 0 THEN <<"-">> \o NatToStr(0 - n) ELSE NatToStr(n)

\* the elements of a sequence
Range(f) == {f[i] : i \in DOMAIN f}

\* all orderings (sequences without repetition) of a finite set
Orderings(S) ==
  {f \in [1..Cardinality(S) -> S] : \A i, j \in DOMAIN f : f[i] = f[j] => i = j}


---------------------------------------------------------------------------
(***************************************************************************)
(* State.                                                                  *)
(*   operand            the constant operand under test (Number, Set or    *)
(*                      Arithmetic), or NoOperand                          *)
(*   status             "none" | "constructed" | "failed": the outcome of  *)
(*                      ArithmeticVariable.__init__                        *)
(*   parsed_results     self.parsed_results, the nested token structure    *)
(*   required_variables self.required_variables, token text -> Variable    *)
(*   key_order          the order in which the dict required_variables is  *)
(*                      iterated                                           *)
(*   full_expression    self.__full_expression                             *)
(*   lookups            the Namespace.get_object calls made by __init__    *)
(*   call               the last method call and its arguments             *)
(*   answer             what that call returned or raised                  *)
(*   subst_log          the substitutions of the last evaluate, in order   *)
(*   asked              the Variables whose to_python the last evaluate    *)
(*                      called                                             *)
(*   evaluations        the number of evaluate calls made so far           *)
(***************************************************************************)
VARIABLES operand, status, parsed_results, required_variables, key_order,
          full_expression, lookups, call, answer, subst_log, asked,
          evaluations

vars == <<operand, status, parsed_results, required_variables, key_order,
          full_expression, lookups, call, answer, subst_log, asked,
          evaluations>>

---------------------------------------------------------------------------
(***************************************************************************)
(* Results of calls: a value returned or an exception raised.              *)
(***************************************************************************)
NoAnswer == [kind |-> "none", n |-> 0, d |-> 1, b |-> FALSE, err |-> ""]

\* a returned number n/d (d > 0, lowest terms)
NumAnswer(n, d) == [kind |-> "num", n |-> n, d |-> d, b |-> FALSE, err |-> ""]

\* a call that returned None
Returned == [kind |-> "returned", n |-> 0, d |-> 1, b |-> FALSE, err |-> ""]

BoolAnswer(b) == [kind |-> "bool", n |-> 0, d |-> 1, b |-> b, err |-> ""]

Raised(e) == [kind |-> "error", n |-> 0, d |-> 1, b |-> FALSE, err |-> e]


---------------------------------------------------------------------------
(***************************************************************************)
(* The nested token structure handed to ArithmeticVariable: a sequence of  *)
(* nodes, each a text token or a ParseResults group of nodes.              *)
(***************************************************************************)
Tok(t) == [group |-> FALSE, text |-> t, items |-> <<>>]

Group(ns) == [group |-> TRUE, text |-> <<>>, items |-> ns]

\* the namespace separator, ArithmeticVariable.__init__'s default
namespace_separator == ":"

\* ArithmeticVariable.flatten: depth first, left to right
RECURSIVE flatten(_)
flatten(s) ==
  IF s = <<>> THEN <<>>
  ELSE IF s[1].group THEN flatten(s[1].items) \o flatten(Tail(s))
  ELSE <<s[1].text>> \o flatten(Tail(s))

\* re.findall("[a-zA-Z" + separator + "]+", token) finds something
IsIdentifier(t) ==
  \E i \in DOMAIN t :
     t[i] \in LowerLetters \cup UpperLetters \cup {namespace_separator}

(***************************************************************************)
(* The Variables of stockVars.py the Namespace binds, and the Namespace.   *)
(***************************************************************************)
NotFound == "NotFound"

Variables == {"StockIncreaseRank", "StockDecreaseRank", "StockOwned"}

\* Namespace.get_object(name, scopes): the bound Variable, or NotFound when
\* the lookup raises
get_object(name, scopes) ==
  IF name = <<"x">> /\ scopes = <<>> THEN "StockIncreaseRank"
  ELSE IF name = <<"x">> /\ scopes = << <<"n", "s">> >> THEN "StockDecreaseRank"
  ELSE IF name = <<"x">> /\ scopes = << <<"b">>, <<"n", "s">> >>
       THEN "StockIncreaseRank"
  ELSE IF name = <<"y">> /\ scopes = <<>> THEN "StockOwned"
  ELSE NotFound

\* var[0:-1] and var[-1] of var = str(number).split(separator)
SplitToken(t) ==
  LET var == StrSplit(t, namespace_separator, <<>>)
  IN  [scopes |-> SubSeq(var, 1, Len(var) - 1), name |-> var[Len(var)]]

\* ArithmeticVariable.__get_variable_names on one node: the one-entry dicts
\* {token: Variable} of the identifier tokens below it, in order
RECURSIVE get_variable_names(_), collect_names(_)

\* as get_variable_names, without the descent into a ParseResults group
get_variable_names_shallow(node) ==
  IF node.group THEN <<>>
  ELSE IF IsIdentifier(node.text)
       THEN LET sp == SplitToken(node.text)
            IN  << [key |-> node.text, name |-> sp.name, scopes |-> sp.scopes,
                    val |-> get_object(sp.name, sp.scopes)] >>
       ELSE <<>>

get_variable_names(node) ==
  IF node.group THEN collect_names(node.items)
  ELSE IF IsIdentifier(node.text)
       THEN LET sp == SplitToken(node.text)
            IN  << [key |-> node.text, name |-> sp.name, scopes |-> sp.scopes,
                    val |-> get_object(sp.name, sp.scopes)] >>
       ELSE <<>>

\* the loop "for n in number: temp.extend / append(__get_variable_names(n))"
collect_names(nodes) ==
  IF nodes = <<>> THEN <<>>
  ELSE get_variable_names(Head(nodes)) \o collect_names(Tail(nodes))

\* ArithmeticVariable.__define_variables: the entries of every top-level node
define_variables(number) == collect_names(number)

\* the dict built from the entries: a later entry overwrites an earlier one
DictOf(entries) ==
  [k \in {entries[i].key : i \in DOMAIN entries} |->
     LET last == CHOOSE i \in DOMAIN entries :
                   /\ entries[i].key = k
                   /\ \A j \in DOMAIN entries : entries[j].key = k => j <= i
     IN  entries[last].val]


---------------------------------------------------------------------------
(***************************************************************************)
(* Python values: t is the type, h the numeric value in halves (so that    *)
(* 2.5 is h = 5), s the text of a str.                                     *)
(***************************************************************************)
PyInt(n) == [t |-> "int", h |-> 2 * n, s |-> <<>>]

PyFloat(h) == [t |-> "float", h |-> h, s |-> <<>>]

PyBool(b) == [t |-> "bool", h |-> IF b THEN 2 ELSE 0, s |-> <<>>]

PyText(s) == [t |-> "str", h |-> 0, s |-> s]

PyNone == [t |-> "None", h |-> 0, s |-> <<>>]

PyInf == [t |-> "inf", h |-> 0, s |-> <<>>]

PyList == [t |-> "list", h |-> 0, s |-> <<>>]

\* str(value)
PyStr(v) ==
  CASE v.t = "int" -> IntToStr(v.h \div 2)
    [] v.t = "float" ->
         LET a == IF v.h < 0 THEN 0 - v.h ELSE v.h
         IN  (IF v.h < 0 THEN <<"-">> ELSE <<>>) \o NatToStr(a \div 2)
               \o <<".">> \o (IF a % 2 = 1 THEN <<"5">> ELSE <<"0">>)
    [] v.t = "bool" -> IF v.h = 2 THEN <<"T", "r", "u", "e">>
                       ELSE <<"F", "a", "l", "s", "e">>
    [] v.t = "str" -> v.s
    [] v.t = "None" -> <<"N", "o", "n", "e">>
    [] v.t = "inf" -> <<"i", "n", "f">>
    [] v.t = "list" -> <<"[", "]">>

(***************************************************************************)
(* Contexts and the Variables' to_python (stockVars.py, index 0).          *)
(***************************************************************************)
Contexts ==
  [increase_rank : {2, -3}, decrease_rank : {5, 0}, owned : {TRUE}]

\* the contexts the Arithmetic comparisons are called with
CompareContexts ==
  [increase_rank : {2, -3}, decrease_rank : {5}, owned : {TRUE}]

NoContext == [increase_rank |-> 0, decrease_rank |-> 0, owned |-> FALSE]

to_python(v, context) ==
  CASE v = "StockIncreaseRank" -> PyInt(context.increase_rank)
    [] v = "StockDecreaseRank" -> PyInt(context.decrease_rank)
    [] v = "StockOwned" -> PyBool(context.owned)

---------------------------------------------------------------------------
(***************************************************************************)
(* SafeEval.eval_expr: the restricted evaluator of numeric literals,       *)
(* + - * / **, parentheses and unary minus.  Numbers are exact rationals   *)
(* n/d.                                                                    *)
(***************************************************************************)
RECURSIVE GCD(_, _)
GCD(a, b) == IF b = 0 THEN a ELSE GCD(b, a % b)

Abs(a) == IF a < 0 THEN 0 - a ELSE a

\* n/d in lowest terms with d > 0 (d # 0)
Norm(n, d) ==
  LET g == GCD(Abs(n), Abs(d))
      sg == IF d < 0 THEN 0 - 1 ELSE 1
  IN  [n |-> sg * (n \div g), d |-> sg * (d \div g)]

RECURSIVE IntPow(_, _)
IntPow(b, e) == IF e = 0 THEN 1 ELSE b * IntPow(b, e - 1)

\* the length of the run of digits s starts with
RECURSIVE DigitRun(_)
DigitRun(s) ==
  IF s # <<>> /\ Head(s) \in DigitChars THEN 1 + DigitRun(Tail(s)) ELSE 0

RECURSIVE DigitsValue(_, _)
DigitsValue(s, acc) ==
  IF s = <<>> THEN acc ELSE DigitsValue(Tail(s), 10 * acc + DigitVal(Head(s)))

LexTok(t, n) == [t |-> t, n |-> n]

\* the lexical tokens of the text; "bad" marks a character outside the grammar
RECURSIVE Lex(_)
Lex(s) ==
  IF s = <<>> THEN <<>>
  ELSE IF Head(s) = " " THEN Lex(Tail(s))
  ELSE IF Head(s) \in DigitChars
       THEN LET k == DigitRun(s)
            IN  <<LexTok("num", DigitsValue(SubSeq(s, 1, k), 0))>>
                  \o Lex(SubSeq(s, k + 1, Len(s)))
  ELSE IF Len(s) >= 2 /\ s[1] = "*" /\ s[2] = "*"
       THEN <<LexTok("**", 0)>> \o Lex(SubSeq(s, 3, Len(s)))
  ELSE IF Head(s) \in {"+", "-", "*", "/", "(", ")"}
       THEN <<LexTok(Head(s), 0)>> \o Lex(Tail(s))
  ELSE <<LexTok("bad", 0)>> \o Lex(Tail(s))

POk(n, d, rest) == [ok |-> TRUE, err |-> "", n |-> n, d |-> d, rest |-> rest]

PErr(e) == [ok |-> FALSE, err |-> e, n |-> 0, d |-> 1, rest |-> <<>>]

\* a op b on rationals
BinOp(o, a, b, rest) ==
  CASE o = "+" -> LET r == Norm(a.n * b.d + b.n * a.d, a.d * b.d)
                  IN  POk(r.n, r.d, rest)
    [] o = "-" -> LET r == Norm(a.n * b.d - b.n * a.d, a.d * b.d)
                  IN  POk(r.n, r.d, rest)
    [] o = "*" -> LET r == Norm(a.n * b.n, a.d * b.d) IN POk(r.n, r.d, rest)
    [] o = "/" -> IF b.n = 0 THEN PErr("ZeroDivisionError")
                  ELSE LET r == Norm(a.n * b.d, a.d * b.n)
                       IN  POk(r.n, r.d, rest)
    [] o = "**" ->
         IF b.d # 1 THEN PErr("OutOfModel")
         ELSE IF b.n >= 0
              THEN POk(IntPow(a.n, b.n), IntPow(a.d, b.n), rest)
         ELSE IF a.n = 0 THEN PErr("ZeroDivisionError")
         ELSE LET r == Norm(IntPow(a.d, 0 - b.n), IntPow(a.n, 0 - b.n))
              IN  POk(r.n, r.d, rest)

\* The recursive-descent parser, one rule per value of rule; x is the token
\* sequence to parse, or for the "loop" rules the left operand parsed so far.
\*   expr:   term (('+' | '-') term)*
\*   term:   factor (('*' | '/') factor)*
\*   factor: ('+' | '-') factor | power
\*   power:  atom ['**' factor]
\*   atom:   NUMBER | '(' expr ')'
RECURSIVE Parse(_, _)
Parse(rule, x) ==
  CASE rule = "expr" ->
         LET t == Parse("term", x)
         IN  IF t.ok THEN Parse("exprloop", t) ELSE t
    [] rule = "exprloop" ->
         IF x.rest # <<>> /\ Head(x.rest).t \in {"+", "-"}
         THEN LET r == Parse("term", Tail(x.rest))
                  v == BinOp(Head(x.rest).t, x, r, r.rest)
              IN  IF ~r.ok THEN r ELSE IF v.ok THEN Parse("exprloop", v) ELSE v
         ELSE x
    [] rule = "term" ->
         LET f == Parse("factor", x)
         IN  IF f.ok THEN Parse("termloop", f) ELSE f
    [] rule = "termloop" ->
         IF x.rest # <<>> /\ Head(x.rest).t \in {"*", "/"}
         THEN LET r == Parse("factor", Tail(x.rest))
                  v == BinOp(Head(x.rest).t, x, r, r.rest)
              IN  IF ~r.ok THEN r ELSE IF v.ok THEN Parse("termloop", v) ELSE v
         ELSE x
    [] rule = "factor" ->
         IF x # <<>> /\ Head(x).t \in {"+", "-"}
         THEN LET f == Parse("factor", Tail(x))
              IN  IF f.ok /\ Head(x).t = "-" THEN POk(0 - f.n, f.d, f.rest)
                  ELSE f
         ELSE LET a == Parse("atom", x)
              IN  IF a.ok /\ a.rest # <<>> /\ Head(a.rest).t = "**"
                  THEN LET f == Parse("factor", Tail(a.rest))
                       IN  IF f.ok THEN BinOp("**", a, f, f.rest) ELSE f
                  ELSE a
    [] rule = "atom" ->
         IF x = <<>> THEN PErr("SyntaxError")
         ELSE IF Head(x).t = "num" THEN POk(Head(x).n, 1, Tail(x))
         ELSE IF Head(x).t = "("
              THEN LET e == Parse("expr", Tail(x))
                   IN  IF ~e.ok THEN e
                       ELSE IF e.rest # <<>> /\ Head(e.rest).t = ")"
                            THEN POk(e.n, e.d, Tail(e.rest))
                            ELSE PErr("SyntaxError")
         ELSE PErr("SyntaxError")

\* SafeEval.eval_expr(text): the number, or the error raised
eval_expr(text) ==
  LET toks == Lex(text)
  IN  IF \E i \in DOMAIN toks : toks[i].t = "bad"
      THEN Raised("UnsafeExpression")
      ELSE LET p == Parse("expr", toks)
           IN  IF ~p.ok THEN Raised(p.err)
               ELSE IF p.rest # <<>> THEN Raised("SyntaxError")
               ELSE NumAnswer(p.n, p.d)


---------------------------------------------------------------------------
(***************************************************************************)
(* Coercions of a right-hand value: float(value) and int(value).           *)
(***************************************************************************)
COk(h) == [ok |-> TRUE, err |-> "", h |-> h, inf |-> FALSE]

CInf == [ok |-> TRUE, err |-> "", h |-> 0, inf |-> TRUE]

CErr(e) == [ok |-> FALSE, err |-> e, h |-> 0, inf |-> FALSE]

AllZeros(s) == \A i \in DOMAIN s : s[i] = "0"

\* float(text) of an unsigned text: digits, then optionally "." and digits
FloatOfUnsigned(s) ==
  LET k == DigitRun(s)
      whole == DigitsValue(SubSeq(s, 1, k), 0)
      rest == SubSeq(s, k + 1, Len(s))
  IN  IF k = 0 THEN CErr("ValueError")
      ELSE IF rest = <<>> THEN COk(2 * whole)
      ELSE IF Head(rest) # "." \/ DigitRun(Tail(rest)) # Len(rest) - 1
           THEN CErr("ValueError")
      ELSE IF AllZeros(Tail(rest)) THEN COk(2 * whole)
      ELSE IF rest[2] = "5" /\ AllZeros(SubSeq(rest, 3, Len(rest)))
           THEN COk(2 * whole + 1)
      ELSE CErr("OutOfModel")

\* float(value)
PyToFloat(v) ==
  CASE v.t \in {"int", "float", "bool"} -> COk(v.h)
    [] v.t = "inf" -> CInf
    [] v.t = "str" ->
         IF v.s # <<>> /\ Head(v.s) = "-"
         THEN LET r == FloatOfUnsigned(Tail(v.s))
              IN  IF r.ok THEN COk(0 - r.h) ELSE r
         ELSE FloatOfUnsigned(v.s)
    [] v.t \in {"None", "list"} -> CErr("TypeError")

\* int(value): truncation toward zero for a float; a text must be an
\* integer literal
PyToInt(v) ==
  CASE v.t \in {"int", "bool"} -> COk(v.h)
    [] v.t = "float" ->
         COk(IF v.h < 0 THEN 0 - 2 * ((0 - v.h) \div 2) ELSE 2 * (v.h \div 2))
    [] v.t = "inf" -> CErr("OverflowError")
    [] v.t = "str" ->
         LET neg == v.s # <<>> /\ Head(v.s) = "-"
             body == IF neg THEN Tail(v.s) ELSE v.s
         IN  IF body # <<>> /\ DigitRun(body) = Len(body)
             THEN COk((IF neg THEN 0 - 2 ELSE 2) * DigitsValue(body, 0))
             ELSE CErr("ValueError")
    [] v.t \in {"None", "list"} -> CErr("TypeError")

---------------------------------------------------------------------------
(***************************************************************************)
(* ArithmeticVariable.replace and ArithmeticVariable.evaluate.             *)
(***************************************************************************)
\* as SkipKey, without the test for the separator: no key is ever skipped
SkipKeyNever(namespace, k) == FALSE

\* the guard of replace's loop: in the namespace pass a key without the
\* separator is skipped
SkipKey(namespace, k) ==
  namespace /\ ~StrContains(k, <<namespace_separator>>)

\* replace(num, context, namespace): keys is what is left of the iteration
\* over required_variables rv
RECURSIVE replace(_, _, _, _, _)
replace(num, context, namespace, keys, rv) ==
  IF keys = <<>> THEN num
  ELSE IF SkipKey(namespace, Head(keys))
       THEN replace(num, context, namespace, Tail(keys), rv)
       ELSE replace(StrReplace(num, Head(keys),
                               PyStr(to_python(rv[Head(keys)], context))),
                    context, namespace, Tail(keys), rv)

\* the keys one replace call substitutes, in order
Substituted(namespace, keys) ==
  SelectSeq(keys, LAMBDA k : ~SkipKey(namespace, k))

\* as evaluate, keeping the substituted text as the object's expression
evaluate_caching(full, rv, keys, context) ==
  LET pass1 == replace(full, context, TRUE, keys, rv)
      pass2 == replace(pass1, context, FALSE, keys, rv)
      number == StrReplace(pass2, <<"^">>, <<"*", "*">>)
      s1 == Substituted(TRUE, keys)
      s2 == Substituted(FALSE, keys)
  IN  [number |-> number,
       answer |-> eval_expr(number),
       log |-> [i \in 1..(Len(s1) + Len(s2)) |->
                  IF i <= Len(s1) THEN [key |-> s1[i], pass |-> 1]
                  ELSE [key |-> s2[i - Len(s1)], pass |-> 2]],
       full_expression |-> pass2]

\* as evaluate, answering 0 when the evaluator rejects the text
evaluate_default(full, rv, keys, context) ==
  LET pass1 == replace(full, context, TRUE, keys, rv)
      pass2 == replace(pass1, context, FALSE, keys, rv)
      number == StrReplace(pass2, <<"^">>, <<"*", "*">>)
      s1 == Substituted(TRUE, keys)
      s2 == Substituted(FALSE, keys)
      r == eval_expr(number)
  IN  [number |-> number,
       answer |-> IF r.kind = "error" THEN NumAnswer(0, 1) ELSE r,
       log |-> [i \in 1..(Len(s1) + Len(s2)) |->
                  IF i <= Len(s1) THEN [key |-> s1[i], pass |-> 1]
                  ELSE [key |-> s2[i - Len(s1)], pass |-> 2]],
       full_expression |-> full]

\* evaluate(context) on an expression with text full, mapping rv iterated in
\* the order keys: the text handed to the evaluator, the answer, the
\* substitutions made in order (pass 1, then pass 2), and the object's
\* __full_expression afterwards
evaluate(full, rv, keys, context) ==
  LET pass1 == replace(full, context, TRUE, keys, rv)
      pass2 == replace(pass1, context, FALSE, keys, rv)
      number == StrReplace(pass2, <<"^">>, <<"*", "*">>)
      s1 == Substituted(TRUE, keys)
      s2 == Substituted(FALSE, keys)
  IN  [number |-> number,
       answer |-> eval_expr(number),
       log |-> [i \in 1..(Len(s1) + Len(s2)) |->
                  IF i <= Len(s1) THEN [key |-> s1[i], pass |-> 1]
                  ELSE [key |-> s2[i - Len(s1)], pass |-> 2]],
       full_expression |-> full]

---------------------------------------------------------------------------
(***************************************************************************)
(* Inputs of the arithmetic specification.                                 *)
(***************************************************************************)
OperandTokens ==
  { <<"x">>, <<"n", "s", ":", "x">>, <<"b", ":", "n", "s", ":", "x">>,
    <<"y">>, <<"z">>, <<"2">> }

OperatorTokens == { <<"+">>, <<"-">>, <<"^">>, <<";">> }

\* token sequences as the tokenizer produces them: operands separated by
\* operators
TokenSeqs ==
  UNION { { t \in [1..n -> OperandTokens \cup OperatorTokens] :
              \A i \in 1..n : IF i % 2 = 1 THEN t[i] \in OperandTokens
                                           ELSE t[i] \in OperatorTokens }
          : n \in 1..MaxTokens }

Toks(t) == [i \in DOMAIN t |-> Tok(t[i])]

\* the nestings of a token sequence: flat, the tokens after the first in a
\* group, the first token two groups deep
Nestings(t) ==
  { Toks(t),
    <<Group(<<Group(<<Tok(t[1])>>)>> \o Toks(Tail(t)))>> }
  \cup (IF Len(t) >= 2 THEN { <<Tok(t[1]), Group(Toks(Tail(t)))>> } ELSE {})

ParsedInputs == UNION { Nestings(t) : t \in TokenSeqs }

\* a constant operand: kind is its class, h the float of a Number in halves,
\* s the text of a String, members the member operands of a Set in the
\* order in which the Python set constant_value is iterated
Operand(kind, h, s, members) ==
  [kind |-> kind, h |-> h, s |-> s, members |-> members]

NoOperand == Operand("none", 0, <<>>, <<>>)

Call(op, value, context, py) ==
  [op |-> op, value |-> value, context |-> context, py |-> py,
   values |-> <<>>, other |-> <<>>]

NoCall == Call("none", PyNone, NoContext, 3)

---------------------------------------------------------------------------
(***************************************************************************)
(* Actions of the arithmetic specification.                                *)
(***************************************************************************)
\* the entries up to the first lookup that raises (all of them if none does)
UntilFailure(entries) ==
  LET bad == {i \in DOMAIN entries : entries[i].val = NotFound}
  IN  IF bad = {} THEN entries
      ELSE SubSeq(entries, 1, CHOOSE i \in bad : \A j \in bad : i <= j)

\* ArithmeticVariable.__init__(number, namespace)
Construct(number) ==
  /\ status = "none"
  /\ LET entries == define_variables(number)
         done == UntilFailure(entries)
     IN  /\ parsed_results' = number
         /\ lookups' = [i \in DOMAIN done |->
                          [name |-> done[i].name, scopes |-> done[i].scopes]]
         /\ IF \E i \in DOMAIN entries : entries[i].val = NotFound
            THEN /\ status' = "failed"
                 /\ required_variables' = <<>>
                 /\ key_order' = <<>>
                 /\ full_expression' = <<>>
            ELSE /\ status' = "constructed"
                 /\ required_variables' = DictOf(entries)
                 /\ key_order' \in Orderings(DOMAIN DictOf(entries))
                 /\ full_expression' = StrJoin(flatten(number))
  /\ UNCHANGED <<operand, call, answer, subst_log, asked, evaluations>>

\* ArithmeticVariable.evaluate(context), which is Arithmetic.to_python
Evaluate(context) ==
  /\ status = "constructed"
  /\ evaluations < MaxEvaluations
  /\ evaluations' = evaluations + 1
  /\ LET r == evaluate(full_expression, required_variables, key_order, context)
     IN  /\ answer' = r.answer
         /\ subst_log' = r.log
         /\ asked' = {required_variables[r.log[i].key] : i \in DOMAIN r.log}
         /\ full_expression' = r.full_expression
  /\ call' = Call("evaluate", PyNone, context, 3)
  /\ UNCHANGED <<operand, status, parsed_results, required_variables,
                 key_order, lookups>>

Init ==
  /\ operand = NoOperand
  /\ status = "none"
  /\ parsed_results = <<>>
  /\ required_variables = <<>>
  /\ key_order = <<>>
  /\ full_expression = <<>>
  /\ lookups = <<>>
  /\ call = NoCall
  /\ answer = NoAnswer
  /\ subst_log = <<>>
  /\ asked = {}
  /\ evaluations = 0


---------------------------------------------------------------------------
(***************************************************************************)
(* Arithmetic: the constant whose constant_value is the ArithmeticVariable *)
(* object itself.                                                          *)
(***************************************************************************)
\* Arithmetic._to_number: float(value), a ValueError becoming
\* InvalidOperationError
Arithmetic_to_number(value) ==
  LET f == PyToFloat(value)
  IN  IF ~f.ok /\ f.err = "ValueError" THEN CErr("InvalidOperationError")
      ELSE f

\* Constant.equals with an ArithmeticVariable as constant_value:
\* constant_value == value compares the object, which defines no __eq__,
\* with a float
Arithmetic_equals(value) ==
  LET f == Arithmetic_to_number(value)
  IN  IF f.ok THEN BoolAnswer(FALSE) ELSE Raised(f.err)

\* constant_value > value: the object defines no ordering, so Python 3
\* raises TypeError and Python 2 orders a number before any other object
Arithmetic_greater_than(value, py) ==
  LET f == Arithmetic_to_number(value)
  IN  IF ~f.ok THEN Raised(f.err)
      ELSE IF py = 2 THEN BoolAnswer(TRUE) ELSE Raised("TypeError")

\* constant_value < value
Arithmetic_less_than(value, py) ==
  LET f == Arithmetic_to_number(value)
  IN  IF ~f.ok THEN Raised(f.err)
      ELSE IF py = 2 THEN BoolAnswer(FALSE) ELSE Raised("TypeError")

\* right-hand values the Arithmetic comparisons are called with
ArithmeticValues == { PyInt(2), PyText(<<"7">>), PyText(<<"a">>) }

\* the major versions of the interpreter the source supports
PythonVersions == {2, 3}

CompareFrame ==
  /\ subst_log' = <<>>
  /\ asked' = {}
  /\ UNCHANGED <<operand, status, parsed_results, required_variables,
                 key_order, full_expression, lookups, evaluations>>

ArithmeticEquals(value, context) ==
  /\ status = "constructed"
  /\ answer' = Arithmetic_equals(value)
  /\ call' = Call("equals", value, context, 3)
  /\ CompareFrame

ArithmeticGreaterThan(value, context, py) ==
  /\ status = "constructed"
  /\ answer' = Arithmetic_greater_than(value, py)
  /\ call' = Call("greater_than", value, context, py)
  /\ CompareFrame

ArithmeticLessThan(value, context, py) ==
  /\ status = "constructed"
  /\ answer' = Arithmetic_less_than(value, py)
  /\ call' = Call("less_than", value, context, py)
  /\ CompareFrame

NextArith ==
  \/ \E number \in ParsedInputs : Construct(number)
  \/ \E context \in Contexts : Evaluate(context)

\* construction and evaluation of arithmetic expressions
Spec == Init /\ [][NextArith]_vars

NextCompare ==
  \/ \E number \in ParsedInputs : Construct(number)
  \/ \E value \in ArithmeticValues, context \in CompareContexts :
       ArithmeticEquals(value, context)
  \/ \E value \in ArithmeticValues, context \in CompareContexts,
        py \in PythonVersions :
       ArithmeticGreaterThan(value, context, py)
  \/ \E value \in ArithmeticValues, context \in CompareContexts,
        py \in PythonVersions :
       ArithmeticLessThan(value, context, py)

\* construction of Arithmetic constants and their comparisons
CompareSpec == Init /\ [][NextCompare]_vars


---------------------------------------------------------------------------
(***************************************************************************)
(* String, Number and Set.                                                 *)
(***************************************************************************)
\* String(string): the constant_value is str(string)
String(v) == Operand("String", 0, PyStr(v), <<>>)

\* Number(number): the constant_value is float(number)
Number(v) == Operand("Number", PyToFloat(v).h, <<>>, <<>>)

\* Set(*items): the constant_value is set(items), iterated in the order items
Set(items) == Operand("Set", 0, <<>>, items)

\* String.equals: str(value) == constant_value
String_equals(self, value) == BoolAnswer(self.s = PyStr(value))

\* Number._to_number: float(value), a ValueError becoming
\* InvalidOperationError
Number_to_number(value) ==
  LET f == PyToFloat(value)
  IN  IF ~f.ok /\ f.err = "ValueError" THEN CErr("InvalidOperationError")
      ELSE f

\* Number.equals: constant_value == float(value)
Number_equals(self, value) ==
  LET f == Number_to_number(value)
  IN  IF ~f.ok THEN Raised(f.err) ELSE BoolAnswer(~f.inf /\ self.h = f.h)

\* Number.greater_than: constant_value > float(value)
Number_greater_than(self, value) ==
  LET f == Number_to_number(value)
  IN  IF ~f.ok THEN Raised(f.err) ELSE BoolAnswer(~f.inf /\ self.h > f.h)

\* Number.less_than: constant_value < float(value)
Number_less_than(self, value) ==
  LET f == Number_to_number(value)
  IN  IF ~f.ok THEN Raised(f.err) ELSE BoolAnswer(f.inf \/ self.h < f.h)

\* the exceptions Set._to_int catches around int(value) and float(value)
ToIntCaught == {"ValueError", "TypeError"}

\* Set._to_int: int(value) when it equals float(value), otherwise
\* InvalidOperationError; an exception it does not catch propagates
Set_to_int(value) ==
  LET i == PyToInt(value)
      f == PyToFloat(value)
  IN  IF ~i.ok
      THEN IF i.err \in ToIntCaught THEN CErr("InvalidOperationError") ELSE i
      ELSE IF ~f.ok
      THEN IF f.err \in ToIntCaught THEN CErr("InvalidOperationError") ELSE f
      ELSE IF f.inf \/ i.h # f.h THEN CErr("InvalidOperationError")
      ELSE i

\* Set.less_than: len(constant_value) < int(value)
Set_less_than(self, value) ==
  LET i == Set_to_int(value)
  IN  IF ~i.ok THEN Raised(i.err) ELSE BoolAnswer(2 * Len(self.members) < i.h)

\* Set.greater_than: len(constant_value) > int(value)
Set_greater_than(self, value) ==
  LET i == Set_to_int(value)
  IN  IF ~i.ok THEN Raised(i.err) ELSE BoolAnswer(2 * Len(self.members) > i.h)

\* item.equals(value, context) for a member operand of a Set
item_equals(item, value) ==
  CASE item.kind = "String" -> String_equals(item, value)
    [] item.kind = "Number" -> Number_equals(item, value)

\* Set.belongs_to over the members left to visit: True at the first member
\* that equals value, a member raising InvalidOperationError is passed over,
\* another exception propagates
RECURSIVE belongs_to(_, _)
belongs_to(members, value) ==
  IF members = <<>> THEN BoolAnswer(FALSE)
  ELSE LET r == item_equals(Head(members), value)
       IN  IF r.kind = "error"
           THEN IF r.err = "InvalidOperationError"
                THEN belongs_to(Tail(members), value)
                ELSE r
           ELSE IF r.b THEN BoolAnswer(TRUE)
           ELSE belongs_to(Tail(members), value)

\* as is_subset, answering True as soon as one item belongs to the set
RECURSIVE is_subset_any(_, _)
is_subset_any(self, values) ==
  IF values = <<>> THEN BoolAnswer(TRUE)
  ELSE LET r == belongs_to(self.members, Head(values))
       IN  IF r.kind = "error" THEN r
           ELSE IF r.b THEN BoolAnswer(TRUE)
           ELSE is_subset_any(self, Tail(values))

\* Set.is_subset over the items of value left to visit: False at the first
\* item that does not belong to the set
RECURSIVE is_subset(_, _)
is_subset(self, values) ==
  IF values = <<>> THEN BoolAnswer(TRUE)
  ELSE LET r == belongs_to(self.members, Head(values))
       IN  IF r.kind = "error" THEN r
           ELSE IF ~r.b THEN BoolAnswer(FALSE)
           ELSE is_subset(self, Tail(values))

\* a == b on two operands: they are equivalent, of the same class and with
\* the same constant_value
operand_eq(a, b) == a.kind = b.kind /\ a.h = b.h /\ a.s = b.s

\* the inner loop of check_equivalence: unmatched with its first element
\* equal to element deleted, or unchanged when none is
RECURSIVE delete_first(_, _)
delete_first(unmatched, element) ==
  IF unmatched = <<>> THEN <<>>
  ELSE IF operand_eq(Head(unmatched), element) THEN Tail(unmatched)
  ELSE <<Head(unmatched)>> \o delete_first(Tail(unmatched), element)

\* the outer loop of check_equivalence over the elements of the other set
RECURSIVE match_elements(_, _)
match_elements(unmatched, elements) ==
  IF elements = <<>> THEN unmatched
  ELSE match_elements(delete_first(unmatched, Head(elements)), Tail(elements))

\* as check_equivalence, without the final assertion on unmatched_elements
check_equivalence_cardinality(self, node) ==
  IF Len(self.members) # Len(node.members) THEN Raised("AssertionError")
  ELSE Returned

\* Set.check_equivalence(node) for a Set node
check_equivalence(self, node) ==
  IF Len(self.members) # Len(node.members) THEN Raised("AssertionError")
  ELSE IF match_elements(self.members, node.members) # <<>>
       THEN Raised("AssertionError")
  ELSE Returned

---------------------------------------------------------------------------
(***************************************************************************)
(* Inputs and actions of the specification of the constants.               *)
(***************************************************************************)
\* the right-hand values of the comparisons
RightValues ==
  { PyInt(1), PyInt(2), PyFloat(4), PyFloat(5), PyInf,
    PyText(<<"2">>), PyText(<<"2", ".", "5">>), PyText(<<"a">>),
    PyNone, PyList }

\* the values Number constants are built from
NumberInputs == { PyInt(1), PyFloat(5), PyText(<<"2">>) }

\* the operands Set constants are built from
MemberPool ==
  { String(PyText(<<"a">>)), String(PyInt(2)), Number(PyInt(2)) }

SeqsUpTo(S, n) == UNION { [1..k -> S] : k \in 0..n }

\* the elements of the collections handed to is_subset
SubsetValues == { PyText(<<"a">>), PyInt(2), PyFloat(5), PyNone }

ConstCall(op, value, values, other) ==
  [op |-> op, value |-> value, context |-> NoContext, py |-> 3,
   values |-> values, other |-> other]

ConstFrame ==
  UNCHANGED <<status, parsed_results, required_variables, key_order,
              full_expression, lookups, subst_log, asked, evaluations>>

\* Number(number)
ConstructNumber(number) ==
  /\ operand = NoOperand
  /\ operand' = Number(number)
  /\ UNCHANGED <<call, answer>>
  /\ ConstFrame

\* Set(*items); the iteration order of the set is fixed from here on
ConstructSet(items) ==
  /\ operand = NoOperand
  /\ operand' = Set(items)
  /\ UNCHANGED <<call, answer>>
  /\ ConstFrame

NumberEquals(value) ==
  /\ operand.kind = "Number"
  /\ answer' = Number_equals(operand, value)
  /\ call' = ConstCall("Number.equals", value, <<>>, <<>>)
  /\ UNCHANGED operand
  /\ ConstFrame

NumberGreaterThan(value) ==
  /\ operand.kind = "Number"
  /\ answer' = Number_greater_than(operand, value)
  /\ call' = ConstCall("Number.greater_than", value, <<>>, <<>>)
  /\ UNCHANGED operand
  /\ ConstFrame

NumberLessThan(value) ==
  /\ operand.kind = "Number"
  /\ answer' = Number_less_than(operand, value)
  /\ call' = ConstCall("Number.less_than", value, <<>>, <<>>)
  /\ UNCHANGED operand
  /\ ConstFrame

SetLessThan(value) ==
  /\ operand.kind = "Set"
  /\ answer' = Set_less_than(operand, value)
  /\ call' = ConstCall("Set.less_than", value, <<>>, <<>>)
  /\ UNCHANGED operand
  /\ ConstFrame

SetGreaterThan(value) ==
  /\ operand.kind = "Set"
  /\ answer' = Set_greater_than(operand, value)
  /\ call' = ConstCall("Set.greater_than", value, <<>>, <<>>)
  /\ UNCHANGED operand
  /\ ConstFrame

SetBelongsTo(value) ==
  /\ operand.kind = "Set"
  /\ answer' = belongs_to(operand.members, value)
  /\ call' = ConstCall("Set.belongs_to", value, <<>>, <<>>)
  /\ UNCHANGED operand
  /\ ConstFrame

SetIsSubset(values) ==
  /\ operand.kind = "Set"
  /\ answer' = is_subset(operand, values)
  /\ call' = ConstCall("Set.is_subset", PyNone, values, <<>>)
  /\ UNCHANGED operand
  /\ ConstFrame

SetCheckEquivalence(items) ==
  /\ operand.kind = "Set"
  /\ answer' = check_equivalence(operand, Set(items))
  /\ call' = ConstCall("Set.check_equivalence", PyNone, <<>>, items)
  /\ UNCHANGED operand
  /\ ConstFrame

NextConst ==
  \/ \E number \in NumberInputs : ConstructNumber(number)
  \/ \E items \in SeqsUpTo(MemberPool, MaxMembers) : ConstructSet(items)
  \/ \E value \in RightValues : NumberEquals(value)
  \/ \E value \in RightValues : NumberGreaterThan(value)
  \/ \E value \in RightValues : NumberLessThan(value)
  \/ \E value \in RightValues : SetLessThan(value)
  \/ \E value \in RightValues : SetGreaterThan(value)
  \/ \E value \in RightValues : SetBelongsTo(value)
  \/ \E values \in SeqsUpTo(SubsetValues, MaxValues) : SetIsSubset(values)
  \/ \E items \in SeqsUpTo(MemberPool, MaxMembers) : SetCheckEquivalence(items)

\* construction of Number and Set constants and their operations
ConstSpec == Init /\ [][NextConst]_vars

---------------------------------------------------------------------------
(***************************************************************************)
(* Properties of ArithmeticVariable (checked under Spec).                  *)
(***************************************************************************)
\* a key that contains the namespace separator
Qualified(k) == \E i \in DOMAIN k : k[i] = ":"

TextNsX == <<"n", "s", ":", "x">>

\* the token sequence of the expression "ns:x + x"
NsXPlusX == << TextNsX, <<"+">>, <<"x">> >>

EvaluateReturned == call.op = "evaluate"

\* C1: within one evaluate call every key that contains the namespace
\* separator is substituted before any bare key is substituted, and the
\* expression ns:x + x with ns:x = 5 and x = 2 evaluates to 7.
C1_QualifiedBeforeBare ==
  EvaluateReturned =>
    /\ \A q \in DOMAIN required_variables :
         Qualified(q) =>
           \E i \in DOMAIN subst_log :
              /\ subst_log[i].key = q
              /\ \A j \in DOMAIN subst_log :
                   ~Qualified(subst_log[j].key) => i < j
    /\ ( /\ flatten(parsed_results) = NsXPlusX
         /\ call.context.decrease_rank = 5
         /\ call.context.increase_rank = 2 )
       => answer = NumAnswer(7, 1)

\* C1 witness: ns:x + x evaluated to 7 with ns:x = 5 and x = 2, by an object
\* whose mapping is iterated bare key first
C1_Witness ==
  /\ EvaluateReturned
  /\ flatten(parsed_results) = NsXPlusX
  /\ key_order = << <<"x">>, TextNsX >>
  /\ call.context.decrease_rank = 5
  /\ call.context.increase_rank = 2
  /\ answer = NumAnswer(7, 1)

\* the characters of numeric literals, + - * / **, parentheses and blanks
ArithmeticChars == DigitChars \cup {"+", "-", "*", "/", "(", ")", ".", " "}

\* the tokens of the expression that stand for a Variable whose value is
\* not a number
NonNumericTokens ==
  { t \in DOMAIN required_variables :
      /\ StrContains(full_expression, t)
      /\ to_python(required_variables[t], call.context).t \notin {"int", "float"} }

\* C3: when the text left by the two substitution passes and the ^
\* translation holds a character outside numeric literals, the arithmetic
\* operators and parentheses (a ";" of the expression, or the text of a
\* Variable value that is not a number), evaluate fails with
\* UnsafeExpression.
C3_ForeignTextRejected ==
  EvaluateReturned =>
    LET number == evaluate(StrJoin(flatten(parsed_results)), required_variables,
                           key_order, call.context).number
    IN  /\ (\E i \in DOMAIN number : number[i] \notin ArithmeticChars)
             => answer = Raised("UnsafeExpression")
        /\ (\E i \in DOMAIN full_expression : full_expression[i] = ";")
             => answer = Raised("UnsafeExpression")
        /\ NonNumericTokens # {} => answer = Raised("UnsafeExpression")

\* C3 witness: an expression over a StockOwned variable, whose value is
\* substituted as the text True, was rejected
C3_Witness ==
  /\ EvaluateReturned
  /\ NonNumericTokens # {}
  /\ \A i \in DOMAIN full_expression : full_expression[i] # ";"
  /\ answer = Raised("UnsafeExpression")

\* the position of the last separator of a token, 0 if it has none
LastSeparator(t) ==
  LET at == {i \in DOMAIN t : t[i] = ":"}
  IN  IF at = {} THEN 0 ELSE CHOOSE i \in at : \A j \in at : j <= i

\* the piece of a token after its last separator
NamePiece(t) == SubSeq(t, LastSeparator(t) + 1, Len(t))

\* the ordered pieces of a token before its last separator
ScopePieces(t) ==
  IF LastSeparator(t) = 0 THEN <<>>
  ELSE StrSplit(SubSeq(t, 1, LastSeparator(t) - 1), ":", <<>>)

\* the tokens of the structure, at any depth, that hold a letter or the
\* separator
IdentifierTokens ==
  { t \in Range(flatten(parsed_results)) :
      \E i \in DOMAIN t : t[i] \in LowerLetters \cup UpperLetters \cup {":"} }

Resolvable(t) == get_object(NamePiece(t), ScopePieces(t)) # NotFound

\* C9: construction looks every identifier token up with name = the piece
\* after the last separator and scopes = the pieces before it, and records
\* token text -> Variable; it fails, leaving no expression, iff a lookup
\* fails; so a constructed expression maps every identifier token it holds.
C9_EveryIdentifierResolved ==
  /\ status = "constructed" =>
       /\ DOMAIN required_variables = IdentifierTokens
       /\ \A t \in IdentifierTokens :
            /\ Resolvable(t)
            /\ required_variables[t] = get_object(NamePiece(t), ScopePieces(t))
            /\ \E i \in DOMAIN lookups :
                 lookups[i] = [name |-> NamePiece(t), scopes |-> ScopePieces(t)]
  /\ status = "failed" =>
       /\ \E t \in IdentifierTokens : ~Resolvable(t)
       /\ required_variables = <<>> /\ full_expression = <<>>
       /\ ~Resolvable(
            LET l == lookups[Len(lookups)]
            IN  IF l.scopes = <<>> THEN l.name
                ELSE StrJoin([i \in DOMAIN l.scopes |-> Append(l.scopes[i], ":")])
                       \o l.name)
  /\ status # "none" =>
       ((\A t \in IdentifierTokens : Resolvable(t)) => status = "constructed")

\* C9 witness: an expression was constructed from a structure that holds a
\* qualified identifier two groups deep and an identifier with two scopes
C9_Witness ==
  /\ status = "constructed"
  /\ parsed_results[1].group
  /\ parsed_results[1].items[1].group
  /\ parsed_results[1].items[1].items[1].text = TextNsX
  /\ required_variables[TextNsX] = "StockDecreaseRank"
  /\ <<"b", ":", "n", "s", ":", "x">> \in DOMAIN required_variables
  /\ lookups[2] = [name |-> <<"x">>, scopes |-> << <<"b">>, <<"n", "s">> >>]

\* C10: every evaluate call asks each mapped Variable for its value under
\* the call's context, answers what a first evaluation of a freshly
\* constructed equal expression answers under that context, and leaves the
\* mapping and the flattened text as construction made them.
C10_EvaluateDependsOnContextOnly ==
  EvaluateReturned =>
    LET fresh_text == StrJoin(flatten(parsed_results))
        fresh_map == DictOf(define_variables(parsed_results))
    IN  /\ required_variables = fresh_map
        /\ full_expression = fresh_text
        /\ asked = Range(required_variables)
        /\ answer = evaluate(fresh_text, fresh_map, key_order, call.context).answer

\* C10 witness: a second evaluation, under a context that gives x another
\* value, of an expression over x returned a number
C10_Witness ==
  /\ EvaluateReturned
  /\ evaluations = 2
  /\ <<"x">> \in DOMAIN required_variables
  /\ call.context.increase_rank = -3
  /\ answer.kind = "num"


---------------------------------------------------------------------------
(***************************************************************************)
(* Properties of Arithmetic (checked under CompareSpec).                   *)
(***************************************************************************)
\* the Arithmetic constant's to_python(context): the evaluation of its
\* expression under the context of the last call
EvaluatedValue ==
  evaluate(full_expression, required_variables, key_order, call.context).answer

\* the comparison the call names, of the number n/d with the float h/2
Compared(op, n, d, h) ==
  CASE op = "equals" -> 2 * n = h * d
    [] op = "greater_than" -> 2 * n > h * d
    [] op = "less_than" -> 2 * n < h * d

\* C2: for a right-hand value convertible to a float, equals, greater_than
\* and less_than of an Arithmetic constant return the comparison (==, >, <)
\* of the evaluated value to_python(context) with float(value).
C2_ComparesEvaluatedValue ==
  ( /\ call.op \in {"equals", "greater_than", "less_than"}
    /\ PyToFloat(call.value).ok
    /\ EvaluatedValue.kind = "num" )
  => answer = BoolAnswer(Compared(call.op, EvaluatedValue.n, EvaluatedValue.d,
                                  PyToFloat(call.value).h))


---------------------------------------------------------------------------
(***************************************************************************)
(* Properties of Number and Set (checked under ConstSpec).                 *)
(***************************************************************************)
\* the values float() converts: numbers, and the texts of numbers
Convertible(v) ==
  \/ v.t \in {"int", "float", "bool", "inf"}
  \/ /\ v.t = "str"
     /\ v.s # <<>>
     /\ \A i \in DOMAIN v.s : v.s[i] \in DigitChars \cup {"."}
     /\ Cardinality({i \in DOMAIN v.s : v.s[i] = "."}) <= 1
     /\ \E i \in DOMAIN v.s : v.s[i] \in DigitChars

\* C4: equals, greater_than and less_than of a Number fail with
\* InvalidOperationError whenever the right-hand value cannot be converted
\* to a float, whether it is a non-numeric text or a value of another type
\* such as None or a list.
C4_CoercionFailureIsTyped ==
  ( /\ call.op \in {"Number.equals", "Number.greater_than", "Number.less_than"}
    /\ ~Convertible(call.value) )
  => answer = Raised("InvalidOperationError")

\* the numbers with an integer value, and their value
IntegerValued(v) == v.t \in {"int", "float"} /\ v.h % 2 = 0

\* the values that are no number, or a number that is no integer
NotAnInteger(v) ==
  \/ v.t \in {"None", "list", "inf"}
  \/ v.t = "float" /\ v.h % 2 = 1
  \/ v.t = "str" /\ \E i \in DOMAIN v.s : v.s[i] \notin DigitChars

\* C5: for an integer-valued right-hand value k, Set.less_than answers
\* len(constant_value) < k and Set.greater_than answers
\* len(constant_value) > k; for a value that is not integral or not numeric
\* both fail with InvalidOperationError.
C5_CardinalityComparison ==
  /\ ( call.op = "Set.less_than" /\ IntegerValued(call.value) )
       => answer = BoolAnswer(2 * Len(operand.members) < call.value.h)
  /\ ( call.op = "Set.greater_than" /\ IntegerValued(call.value) )
       => answer = BoolAnswer(2 * Len(operand.members) > call.value.h)
  /\ ( call.op \in {"Set.less_than", "Set.greater_than"}
       /\ NotAnInteger(call.value) )
       => answer = Raised("InvalidOperationError")

\* a member's equals(value) returns True
MemberMatches(m, value) == item_equals(m, value) = BoolAnswer(TRUE)

\* C6: Set.belongs_to returns true iff some member's equals returns true,
\* a member whose equals fails on a value of a mismatching type counts as
\* no match, and belongs_to itself never fails.
C6_BelongsToNeverFails ==
  call.op = "Set.belongs_to" =>
    answer = BoolAnswer(\E i \in DOMAIN operand.members :
                           MemberMatches(operand.members[i], call.value))

\* an element of the collection passes belongs_to against the set
Passes(value) ==
  \E i \in DOMAIN operand.members :
     /\ MemberMatches(operand.members[i], value)
     /\ \A j \in 1..(i - 1) :
          LET r == item_equals(operand.members[j], value)
          IN  r.kind = "bool" \/ r.err = "InvalidOperationError"

\* C7: Set.is_subset returns true iff every element of value passes
\* belongs_to against the set (so it returns true for an empty value).
C7_SubsetIffAllBelong ==
  call.op = "Set.is_subset" =>
    ( answer = BoolAnswer(TRUE)
        <=> \A i \in DOMAIN call.values : Passes(call.values[i]) )

\* C7 witness: is_subset returned true for a value of two different
\* elements against a set of three members
C7_Witness ==
  /\ call.op = "Set.is_subset"
  /\ Len(call.values) = 2
  /\ call.values[1] # call.values[2]
  /\ Len(operand.members) = 3
  /\ answer = BoolAnswer(TRUE)

\* the two constants denote the same class and value
SameConstant(a, b) == a.kind = b.kind /\ a.h = b.h /\ a.s = b.s

\* a one-to-one matching of the elements of two sequences of constants
Matching(xs, ys) ==
  /\ Len(xs) = Len(ys)
  /\ \E f \in Orderings(DOMAIN xs) :
        \A i \in DOMAIN ys : SameConstant(xs[f[i]], ys[i])

\* C8: Set.check_equivalence succeeds iff the two sets have the same
\* cardinality and their elements match one to one, whatever the order of
\* either collection; otherwise it fails with a mismatch error.
C8_EquivalenceIsMultisetMatch ==
  call.op = "Set.check_equivalence" =>
    /\ answer \in {Returned, Raised("AssertionError")}
    /\ answer = Returned <=> Matching(operand.members, call.other)

\* C8 witness: two sets of equal cardinality with no element in common
\* were found not equivalent
C8_Witness ==
  /\ call.op = "Set.check_equivalence"
  /\ Len(operand.members) = 2
  /\ Len(call.other) = 2
  /\ \A i \in DOMAIN operand.members, j \in DOMAIN call.other :
        ~SameConstant(operand.members[i], call.other[j])
  /\ answer = Raised("AssertionError")

---------------------------------------------------------------------------
(***************************************************************************)
(* The declared operations of the operand classes and the methods each     *)
(* class defines.                                                          *)
(***************************************************************************)
\* the comparison methods of an operand
Methods ==
  {"equals", "greater_than", "less_than", "belongs_to", "is_subset",
   "__call__"}

\* the category of operations a method belongs to
MethodCategory(method) ==
  CASE method = "equals" -> "equality"
    [] method \in {"greater_than", "less_than"} -> "inequality"
    [] method \in {"belongs_to", "is_subset"} -> "membership"
    [] method = "__call__" -> "boolean"

\* the class attribute operations of each class
operations(kind) ==
  CASE kind = "String" -> {"equality"}
    [] kind = "Number" -> {"equality", "inequality"}
    [] kind = "Arithmetic" -> {"equality", "inequality"}
    [] kind = "Set" -> {"equality", "inequality", "membership"}
    [] kind = "StockOwned" -> {"boolean"}
    [] kind = "StockIncreaseRank" -> {"equality", "inequality"}
    [] kind = "StockDecreaseRank" -> {"equality", "inequality"}

\* bool(value)
PyTruth(v) ==
  CASE v.t \in {"int", "float", "bool"} -> v.h # 0
    [] v.t = "str" -> v.s # <<>>
    [] v.t = "inf" -> TRUE
    [] v.t \in {"None", "list"} -> FALSE

\* StockOwned.equals: to_python(context) == bool(value)
StockOwned_equals(value, context) ==
  BoolAnswer(to_python("StockOwned", context) = PyBool(PyTruth(value)))

\* StockOwned.__call__: to_python(context)
StockOwned_call(context) ==
  BoolAnswer(to_python("StockOwned", context) = PyBool(TRUE))

\* the comparisons of StockIncreaseRank and StockDecreaseRank: to_python
\* against int(value), whose exception propagates
Rank_compare(v, method, value, context) ==
  LET actual == to_python(v, context).h
      expected == PyToInt(value)
  IN  IF ~expected.ok THEN Raised(expected.err)
      ELSE CASE method = "equals" -> BoolAnswer(actual = expected.h)
             [] method = "greater_than" -> BoolAnswer(actual > expected.h)
             [] method = "less_than" -> BoolAnswer(actual < expected.h)

\* set(value): the items of a text are its characters, the list is empty,
\* another value is not iterable
PySet(value) ==
  CASE value.t = "str" ->
         COk(0) @@ [items |-> {PyText(<<value.s[i]>>) : i \in DOMAIN value.s}]
    [] value.t = "list" -> COk(0) @@ [items |-> {}]
    [] OTHER -> CErr("TypeError") @@ [items |-> {}]

\* item.to_python(context) for a member operand of a Set
item_to_python(item) ==
  CASE item.kind = "String" -> PyText(item.s)
    [] item.kind = "Number" -> PyFloat(item.h)

\* Set.equals: set(value) == self.to_python(context)
Set_equals(self, value) ==
  LET items == PySet(value)
  IN  IF ~items.ok THEN Raised(items.err)
      ELSE BoolAnswer(items.items =
                        {item_to_python(self.members[i]) :
                           i \in DOMAIN self.members})

\* the method of the Operand base class a class inherits when it does not
\* define the method itself
Operand_default(method) == Raised("InvalidOperationError")

\* self.method(value, context), or self(context) for __call__, resolved the
\* way the class of self resolves the method; is_subset receives the
\* one-item collection [value]
invoke(self, method, value, context, py) ==
  CASE self.kind = "String" /\ method = "equals" -> String_equals(self, value)
    [] self.kind = "Number" /\ method = "equals" -> Number_equals(self, value)
    [] self.kind = "Number" /\ method = "greater_than" ->
         Number_greater_than(self, value)
    [] self.kind = "Number" /\ method = "less_than" ->
         Number_less_than(self, value)
    [] self.kind = "Arithmetic" /\ method = "equals" ->
         Arithmetic_equals(value)
    [] self.kind = "Arithmetic" /\ method = "greater_than" ->
         Arithmetic_greater_than(value, py)
    [] self.kind = "Arithmetic" /\ method = "less_than" ->
         Arithmetic_less_than(value, py)
    [] self.kind = "Set" /\ method = "equals" -> Set_equals(self, value)
    [] self.kind = "Set" /\ method = "greater_than" ->
         Set_greater_than(self, value)
    [] self.kind = "Set" /\ method = "less_than" -> Set_less_than(self, value)
    [] self.kind = "Set" /\ method = "belongs_to" ->
         belongs_to(self.members, value)
    [] self.kind = "Set" /\ method = "is_subset" -> is_subset(self, <<value>>)
    [] self.kind = "StockOwned" /\ method = "equals" ->
         StockOwned_equals(value, context)
    [] self.kind = "StockOwned" /\ method = "__call__" ->
         StockOwned_call(context)
    [] self.kind \in {"StockIncreaseRank", "StockDecreaseRank"}
         /\ method \in {"equals", "greater_than", "less_than"} ->
         Rank_compare(self.kind, method, value, context)
    [] OTHER -> Operand_default(method)

\* the values String constants are built from
StringInputs == { PyText(<<"a">>), PyInt(2) }

\* the token structures Arithmetic constants are built from here
OperationInputs == { Toks(<< <<"x">> >>), Toks(<< <<"2">>, <<"+">>, <<"y">> >>) }

\* the right-hand values the methods are invoked with
OperationValues == { PyInt(2), PyText(<<"a">>), PyNone, PyList }

\* the operand under comparison: the Arithmetic constant once its
\* ArithmeticVariable is constructed, otherwise the constant or Variable
Self ==
  IF status = "constructed" THEN Operand("Arithmetic", 0, <<>>, <<>>)
  ELSE operand

\* String(string)
ConstructString(string) ==
  /\ operand = NoOperand
  /\ status = "none"
  /\ operand' = String(string)
  /\ UNCHANGED <<call, answer>>
  /\ ConstFrame

\* StockOwned(), StockIncreaseRank(), StockDecreaseRank()
ConstructVariable(name) ==
  /\ operand = NoOperand
  /\ status = "none"
  /\ operand' = Operand(name, 0, <<>>, <<>>)
  /\ UNCHANGED <<call, answer>>
  /\ ConstFrame

\* a call of one of the comparison methods on the operand
Invoke(method, value, context, py) ==
  /\ Self # NoOperand
  /\ answer' = invoke(Self, method, value, context, py)
  /\ call' = Call(method, value, context, py)
  /\ CompareFrame

NextOperations ==
  \/ \E string \in StringInputs : ConstructString(string)
  \/ \E number \in NumberInputs : status = "none" /\ ConstructNumber(number)
  \/ \E items \in SeqsUpTo(MemberPool, MaxMembers) :
       status = "none" /\ ConstructSet(items)
  \/ \E name \in Variables : ConstructVariable(name)
  \/ \E number \in OperationInputs : operand = NoOperand /\ Construct(number)
  \/ \E method \in Methods, value \in OperationValues,
        context \in CompareContexts, py \in PythonVersions :
       Invoke(method, value, context, py)

\* construction of operands of every class and calls of their methods
OperationsSpec == Init /\ [][NextOperations]_vars

\* C11: a comparison method whose category is not among the declared
\* operations of the operand's class fails with InvalidOperationError when
\* it is invoked, and never returns a boolean.
C11_UndeclaredOperationFails ==
  (call.op \in Methods /\ MethodCategory(call.op) \notin operations(Self.kind))
    => answer = Raised("InvalidOperationError")

---------------------------------------------------------------------------
(***************************************************************************)
(* Substitution of identifiers by evaluate, checked under Spec.            *)
(***************************************************************************)
\* the text in which every token that is a key of the mapping is replaced,
\* as a whole token, by the text of its own Variable's value
TokenwiseText ==
  LET toks == flatten(parsed_results)
  IN  StrJoin([i \in DOMAIN toks |->
                 IF toks[i] \in DOMAIN required_variables
                 THEN PyStr(to_python(required_variables[toks[i]],
                                      call.context))
                 ELSE toks[i]])

\* k occurs in the text of another key of the mapping
InsideAnotherKey(k) ==
  \E q \in DOMAIN required_variables : q # k /\ StrContains(q, k)

\* C12: evaluate replaces each occurrence of an identifier token by the
\* value of the Variable mapped to exactly that token, whatever the order in
\* which the mapping is iterated, also when one key is a substring of
\* another key: the answer is the one of the text substituted token by token.
C12_EachTokenByItsOwnValue ==
  EvaluateReturned =>
    answer = eval_expr(StrReplace(TokenwiseText, <<"^">>, <<"*", "*">>))

\* the text in which every token that is a key of the mapping is replaced by
\* the text of its Variable's value between parentheses: the value stands
\* as one operand
AtomicText ==
  LET toks == flatten(parsed_results)
  IN  StrJoin([i \in DOMAIN toks |->
                 IF toks[i] \in DOMAIN required_variables
                 THEN <<"(">>
                        \o PyStr(to_python(required_variables[toks[i]],
                                           call.context))
                        \o <<")">>
                 ELSE toks[i]])

\* C13: evaluate returns the value of the arithmetic expression in which
\* each identifier stands for its Variable's value as one atomic operand,
\* also for a negative value (x^2 is the square of the value of x, 2-x is 2
\* minus the value of x).  Stated for the expressions in which no qualified
\* key occurs inside another key.
C13_ValueIsAtomicOperand ==
  ( /\ EvaluateReturned
    /\ ~\E k \in DOMAIN required_variables :
          Qualified(k) /\ InsideAnotherKey(k) )
    => answer = eval_expr(StrReplace(AtomicText, <<"^">>, <<"*", "*">>))

---------------------------------------------------------------------------
(***************************************************************************)
(* Set.belongs_to and the iteration order of the members.                  *)
(***************************************************************************)
\* the operands the Set constants of the membership specification are
\* built from
OrderPool ==
  { String(PyNone), String(PyText(<<"a">>)), Number(PyInt(2)) }

NextMembership ==
  \/ \E items \in SeqsUpTo(OrderPool, MaxMembers) : ConstructSet(items)
  \/ \E value \in RightValues : SetBelongsTo(value)

\* construction of Set constants and membership tests
MembershipSpec == Init /\ [][NextMembership]_vars

\* the members in the iteration order o, a sequence of their positions
Reordered(members, o) == [i \in DOMAIN o |-> members[o[i]]]

\* C14: the outcome of belongs_to (true, false or the exception raised) is
\* the same for every iteration order of the members of the set.
C14_BelongsToOrderIndependent ==
  call.op = "Set.belongs_to" =>
    \A o \in Orderings(DOMAIN operand.members) :
       belongs_to(Reordered(operand.members, o), call.value) = answer

=============================================================================
